---------------------------- MODULE Spec2Model ----------------------------
(***************************************************************************)
(* Quark front end and evaluation core: the AST scope queries and the lazy *)
(* evaluator of quark/core/ast.py and the scanner of quark/core/scanner.py.*)
(*                                                                         *)
(* Identifiers and lexemes are sequences of one-character strings, so that *)
(* Python's set(str) (the set of the characters of a string) and the       *)
(* scanner's character tests are modelled by what they do.                 *)
(***************************************************************************)
EXTENDS Integers, Sequences, FiniteSets, TLC

VARIABLES
    ast_node,        \* an expression node whose scope queries are computed
    ast_cache,       \* the node's functools.cached_property slots
    closure,         \* the driver's environment dict: identifier -> node
    nassign,         \* number of AssignmentStatements the driver has run
    last,            \* the driver's last call: its inputs and its outcome
    scanner,         \* the fields of a QuarkScanner object
    toks,            \* the list tokens() is building
    scan_status,     \* where tokens() stands: "scanning", "returned", "raised"
    scan_call        \* the last call of next_token: where it began, its outcome

ast_vars == <<ast_node, ast_cache>>

eval_vars == <<closure, nassign, last>>

scan_vars == <<scanner, toks, scan_status, scan_call>>

vars == <<ast_node, ast_cache, closure, nassign, last, scanner, toks, scan_status,
          scan_call>>

(***************************************************************************)
(* Bounds of the model.                                                    *)
(***************************************************************************)
MaxDepth == 24       \* evaluation depth at which the host raises RecursionError
MaxAssign == 2       \* assignments the driver runs before an evaluation
MaxStmts == 2        \* statements in a StatementList
MaxLen == 4          \* characters in a scanned source text

(***************************************************************************)
(* AST nodes (ast.py).  None is Python's None.                             *)
(***************************************************************************)
None == [node |-> "None"]

AtomExpression(raw, type_) ==
    [node |-> "AtomExpression", raw |-> raw, type |-> type_]

UnaryExpression(operand, expr) ==
    [node |-> "UnaryExpression", operand |-> operand, expr |-> expr]

BinaryExpression(lhs_expr, operand, rhs_expr) ==
    [node |-> "BinaryExpression", lhs_expr |-> lhs_expr, operand |-> operand,
     rhs_expr |-> rhs_expr]

ConditionalExpression(condition, consequent, alternative) ==
    [node |-> "ConditionalExpression", condition |-> condition,
     consequent |-> consequent, alternative |-> alternative]

ApplicationExpression(function, argument) ==
    [node |-> "ApplicationExpression", function |-> function, argument |-> argument]

LambdaExpression(binding_identifier, body_expression) ==
    [node |-> "LambdaExpression", binding_identifier |-> binding_identifier,
     body_expression |-> body_expression]

LetExpression(binding_variables, initialiser_expressions, body_expression) ==
    [node |-> "LetExpression", binding_identifiers |-> binding_variables,
     initialiser_expressions |-> initialiser_expressions,
     body_expression |-> body_expression]

AssignmentStatement(identifiers, expr_values) ==
    [node |-> "AssignmentStatement", identifiers |-> identifiers,
     expr_values |-> expr_values]

\* IdList.only_raw_ids: the identifiers of the list, in order
only_raw_ids(idlist) == [i \in 1..Len(idlist) |-> idlist[i]]

\* Python's zip(a, b): index range of the pairs
zip(a, b) == 1..(IF Len(a) <= Len(b) THEN Len(a) ELSE Len(b))

\* Python's set(s) for a str s: the set of its one-character substrings
set_of_str(s) == {<<s[i]>> : i \in 1..Len(s)}

\* Python's set(l) for a list l
set_of_list(l) == {l[i] : i \in 1..Len(l)}

(***************************************************************************)
(* Scope queries: variables, free_variables, bound_variables.              *)
(***************************************************************************)
RECURSIVE variables(_)
RECURSIVE free_variables(_)
RECURSIVE bound_variables(_)

ExpressionList_variables(self) ==
    UNION {variables(self[i]) : i \in 1..Len(self)}

ExpressionList_free_variables(self) ==
    UNION {free_variables(self[i]) : i \in 1..Len(self)}

ExpressionList_bound_variables(self) ==
    UNION {bound_variables(self[i]) : i \in 1..Len(self)}

AtomExpression_free_variables(self) ==
    IF self.type = "ID" THEN {self.raw} ELSE {}

AtomExpression_variables(self) == AtomExpression_free_variables(self)

AtomExpression_bound_variables(self) == {}

UnaryExpression_variables(self) == variables(self.expr)

UnaryExpression_free_variables(self) == free_variables(self.expr)

UnaryExpression_bound_variables(self) == bound_variables(self.expr)

BinaryExpression_variables(self) ==
    variables(self.lhs_expr) \cup variables(self.rhs_expr)

BinaryExpression_free_variables(self) ==
    free_variables(self.lhs_expr) \cup free_variables(self.rhs_expr)

BinaryExpression_bound_variables(self) ==
    bound_variables(self.lhs_expr) \cup bound_variables(self.rhs_expr)

ConditionalExpression_variables(self) ==
    IF self.alternative # None
    THEN variables(self.condition) \cup variables(self.consequent)
            \cup variables(self.alternative)
    ELSE variables(self.condition) \cup variables(self.consequent)

ConditionalExpression_free_variables(self) ==
    IF self.alternative # None
    THEN free_variables(self.condition) \cup free_variables(self.consequent)
            \cup free_variables(self.alternative)
    ELSE free_variables(self.condition) \cup free_variables(self.consequent)

ConditionalExpression_bound_variables(self) ==
    IF self.alternative # None
    THEN bound_variables(self.condition) \cup bound_variables(self.consequent)
            \cup bound_variables(self.alternative)
    ELSE bound_variables(self.condition) \cup bound_variables(self.consequent)

ApplicationExpression_variables(self) ==
    variables(self.function) \cup variables(self.argument)

ApplicationExpression_free_variables(self) ==
    free_variables(self.function) \cup free_variables(self.argument)

ApplicationExpression_bound_variables(self) ==
    bound_variables(self.function) \cup bound_variables(self.argument)

LambdaExpression_variables(self) == variables(self.body_expression)

LambdaExpression_free_variables(self) ==
    free_variables(self.body_expression) \ set_of_str(self.binding_identifier)

LambdaExpression_bound_variables(self) ==
    set_of_str(self.binding_identifier) \cap bound_variables(self.body_expression)

LetExpression_variables(self) ==
    ExpressionList_variables(self.initialiser_expressions)
        \cup variables(self.body_expression)

\* Python: a - b | c  parses as  (a - b) | c
LetExpression_free_variables(self) ==
    (free_variables(self.body_expression)
        \ set_of_list(only_raw_ids(self.binding_identifiers)))
    \cup ExpressionList_free_variables(self.initialiser_expressions)

\* Python: a & b | c  parses as  (a & b) | c
LetExpression_bound_variables(self) ==
    (variables(self.body_expression)
        \cap set_of_list(only_raw_ids(self.binding_identifiers)))
    \cup ExpressionList_bound_variables(self.initialiser_expressions)

variables(self) ==
    CASE self.node = "AtomExpression" -> AtomExpression_variables(self)
      [] self.node = "UnaryExpression" -> UnaryExpression_variables(self)
      [] self.node = "BinaryExpression" -> BinaryExpression_variables(self)
      [] self.node = "ConditionalExpression" -> ConditionalExpression_variables(self)
      [] self.node = "ApplicationExpression" -> ApplicationExpression_variables(self)
      [] self.node = "LambdaExpression" -> LambdaExpression_variables(self)
      [] self.node = "LetExpression" -> LetExpression_variables(self)

free_variables(self) ==
    CASE self.node = "AtomExpression" -> AtomExpression_free_variables(self)
      [] self.node = "UnaryExpression" -> UnaryExpression_free_variables(self)
      [] self.node = "BinaryExpression" -> BinaryExpression_free_variables(self)
      [] self.node = "ConditionalExpression" -> ConditionalExpression_free_variables(self)
      [] self.node = "ApplicationExpression" -> ApplicationExpression_free_variables(self)
      [] self.node = "LambdaExpression" -> LambdaExpression_free_variables(self)
      [] self.node = "LetExpression" -> LetExpression_free_variables(self)

bound_variables(self) ==
    CASE self.node = "AtomExpression" -> AtomExpression_bound_variables(self)
      [] self.node = "UnaryExpression" -> UnaryExpression_bound_variables(self)
      [] self.node = "BinaryExpression" -> BinaryExpression_bound_variables(self)
      [] self.node = "ConditionalExpression" -> ConditionalExpression_bound_variables(self)
      [] self.node = "ApplicationExpression" -> ApplicationExpression_bound_variables(self)
      [] self.node = "LambdaExpression" -> LambdaExpression_bound_variables(self)
      [] self.node = "LetExpression" -> LetExpression_bound_variables(self)


(***************************************************************************)
(* Runtime values (quark.core.runtime) and tokens (quark.core.token_).     *)
(***************************************************************************)
Token(type_, raw, pos) == [type |-> type_, raw |-> raw, pos |-> pos]

DigitValue(c) ==
    CASE c = "0" -> 0 [] c = "1" -> 1 [] c = "2" -> 2 [] c = "3" -> 3
      [] c = "4" -> 4 [] c = "5" -> 5 [] c = "6" -> 6 [] c = "7" -> 7
      [] c = "8" -> 8 [] c = "9" -> 9

RECURSIVE DecimalValue(_)
DecimalValue(raw) ==
    IF raw = <<>> THEN 0
    ELSE 10 * DecimalValue(SubSeq(raw, 1, Len(raw) - 1)) + DigitValue(raw[Len(raw)])

\* IntegerObject(raw): the integer a decimal lexeme denotes
IntegerObject(raw) == [obj |-> "IntegerObject", v |-> DecimalValue(raw)]

IntegerOf(n) == [obj |-> "IntegerObject", v |-> n]

RealObject(raw) == [obj |-> "RealObject", v |-> raw]

ComplexObject(raw) == [obj |-> "ComplexObject", v |-> raw]

StringObject(raw) == [obj |-> "StringObject", v |-> raw]

\* BooleanObject(x): x is 1/True or 0/False
BooleanObject(x) == [obj |-> "BooleanObject", v |-> x]

\* a Python bool, as produced by the `not` operator
PyBool(b) == [obj |-> "bool", v |-> b]

IsIntegerObject(x) == "obj" \in DOMAIN x /\ x.obj = "IntegerObject"

IsBooleanObject(x) == "obj" \in DOMAIN x /\ x.obj = "BooleanObject"

LiteralType == "LiteralType"

NoneType == "NoneType"

ExecutionResult(type_, val) == [type |-> type_, val |-> val]

\* a value that is an ExecutionResult namedtuple, not a runtime object
IsExecutionResult(x) == DOMAIN x = {"type", "val"}

\* the outcome of applying a Python operator: a value, or a raised exception
Value(v) == [exc |-> "none", val |-> v]

Throw(e) == [exc |-> e, val |-> None]

\* _token_unary_operation_mapping[t](x); a 2-field namedtuple is truthy and
\* has no unary minus
_token_unary_operation_mapping(t, x) ==
    CASE t = "MINUS" ->
            IF IsIntegerObject(x) THEN Value(IntegerOf(0 - x.v)) ELSE Throw("TypeError")
      [] t = "NOT" ->
            IF IsExecutionResult(x) THEN Value(PyBool(FALSE))
            ELSE IF IsBooleanObject(x) THEN Value(PyBool(~x.v))
            ELSE IF IsIntegerObject(x) THEN Value(PyBool(x.v = 0))
            ELSE Value(PyBool(FALSE))
      [] OTHER -> Throw("AttributeError")

\* the table with the entries of PLUS and MINUS exchanged
binary_mapping_plus_minus_swapped(t, x, y) ==
    IF IsIntegerObject(x) /\ IsIntegerObject(y)
    THEN CASE t = "PLUS" -> Value(IntegerOf(x.v - y.v))
           [] t = "MINUS" -> Value(IntegerOf(x.v + y.v))
           [] t = "STAR" -> Value(IntegerOf(x.v * y.v))
           [] OTHER -> Throw("KeyError")
    ELSE Throw("TypeError")

\* _token_binary_operation_mapping[t](x, y), for the arithmetic operators on
\* integers; an AST node or None as an operand is a TypeError
_token_binary_operation_mapping(t, x, y) ==
    IF IsIntegerObject(x) /\ IsIntegerObject(y)
    THEN CASE t = "PLUS" -> Value(IntegerOf(x.v + y.v))
           [] t = "MINUS" -> Value(IntegerOf(x.v - y.v))
           [] t = "STAR" -> Value(IntegerOf(x.v * y.v))
           [] OTHER -> Throw("KeyError")
    ELSE Throw("TypeError")

expression_types ==
    {"LetExpression", "LambdaExpression", "ConditionalExpression",
     "ApplicationExpression", "BinaryExpression", "UnaryExpression",
     "AtomExpression"}

is_expression_type(t) == t \in expression_types

(***************************************************************************)
(* The evaluator.  A call of execute is modelled by its outcome: the       *)
(* ExecutionResult it returns or the exception it raises, together with    *)
(* the contents, after the call, of the dict and of the list it was        *)
(* handed (both are mutable and shared with the caller), and the log of    *)
(* the pending arguments the lambdas popped.  An absent callstack (None)   *)
(* and an empty one are both the empty sequence: the code only tests       *)
(* `if callstack:`.                                                        *)
(***************************************************************************)
Return(res, cl, cs, log) ==
    [exc |-> "none", result |-> res, closure |-> cl, callstack |-> cs, log |-> log]

Raise(e, cl, cs, log) ==
    [exc |-> e, result |-> ExecutionResult("raised", None), closure |-> cl,
     callstack |-> cs, log |-> log]

EmptyClosure == [k \in {} |-> None]

\* closure[name] = value
setitem(cl, name, value) ==
    [k \in DOMAIN cl \cup {name} |-> IF k = name THEN value ELSE cl[k]]

\* the binding rule without its self-reference case
rebind_direct(cl, name, expr) == setitem(cl, name, expr)

\* the binding rule of AssignmentStatement, LetExpression and LambdaExpression
rebind(cl, name, expr) ==
    IF name \in DOMAIN cl /\ name \in free_variables(expr)
    THEN setitem(cl, name,
            ApplicationExpression(LambdaExpression(name, expr), cl[name]))
    ELSE setitem(cl, name, expr)

\* for name, expr in zip(names, exprs): rebind, from pair i on
RECURSIVE rebind_all(_, _, _, _)
rebind_all(cl, names, exprs, i) ==
    IF i \in zip(names, exprs)
    THEN rebind_all(rebind(cl, names[i], exprs[i]), names, exprs, i + 1)
    ELSE cl

RECURSIVE execute(_, _, _, _)

AtomExpression_execute(self, cl, callstack, depth) ==
    CASE self.type = "INTEGER" ->
            Return(ExecutionResult(LiteralType, IntegerObject(self.raw)), cl, callstack, <<>>)
      [] self.type = "REAL" ->
            Return(ExecutionResult(LiteralType, RealObject(self.raw)), cl, callstack, <<>>)
      [] self.type = "COMPLEX" ->
            Return(ExecutionResult(LiteralType, ComplexObject(self.raw)), cl, callstack, <<>>)
      [] self.type = "STRING" ->
            Return(ExecutionResult(LiteralType, StringObject(self.raw)), cl, callstack, <<>>)
      [] self.type = "BOOLEAN" ->
            Return(ExecutionResult(LiteralType,
                        BooleanObject(self.raw = <<"t", "r", "u", "e">>)),
                   cl, callstack, <<>>)
      [] OTHER ->
            IF self.raw \in DOMAIN cl
            THEN execute(cl[self.raw], cl, callstack, depth - 1)
            ELSE Return(ExecutionResult("AtomExpression", self), cl, callstack, <<>>)

BinaryExpression_execute(self, cl, callstack, depth) ==
    IF free_variables(self) \subseteq DOMAIN cl
    THEN LET left == execute(self.lhs_expr, cl, <<>>, depth - 1) IN
         IF left.exc # "none" THEN Raise(left.exc, left.closure, callstack, left.log)
         ELSE LET right == execute(self.rhs_expr, left.closure, <<>>, depth - 1) IN
              IF right.exc # "none"
              THEN Raise(right.exc, right.closure, callstack, left.log \o right.log)
              ELSE LET v == _token_binary_operation_mapping(self.operand.type,
                                    left.result.val, right.result.val) IN
                   IF v.exc # "none"
                   THEN Raise(v.exc, right.closure, callstack, left.log \o right.log)
                   ELSE Return(ExecutionResult(LiteralType, v.val), right.closure,
                               callstack, left.log \o right.log)
    ELSE Return(ExecutionResult("BinaryExpression", self), cl, callstack, <<>>)

UnaryExpression_execute(self, cl, callstack, depth) ==
    IF free_variables(self) \subseteq DOMAIN cl
    THEN LET r == execute(self.expr, cl, <<>>, depth - 1) IN
         IF r.exc # "none" THEN Raise(r.exc, r.closure, callstack, r.log)
         ELSE LET v == _token_unary_operation_mapping(self.operand.type, r.result) IN
              IF v.exc # "none" THEN Raise(v.exc, r.closure, callstack, r.log)
              ELSE Return(ExecutionResult(LiteralType, v.val), r.closure, callstack, r.log)
    ELSE Return(ExecutionResult("Expression", self), cl, callstack, <<>>)

ConditionalExpression_execute(self, cl, callstack, depth) ==
    LET c == execute(self.condition, cl, <<>>, depth - 1) IN
    IF c.exc # "none" THEN Raise(c.exc, c.closure, callstack, c.log)
    ELSE IF c.result.type = LiteralType
    THEN LET branch == IF c.result.val = BooleanObject(TRUE)
                       THEN self.consequent ELSE self.alternative IN
         IF branch = None THEN Raise("AttributeError", c.closure, callstack, c.log)
         ELSE LET r == execute(branch, c.closure, <<>>, depth - 1) IN
              [r EXCEPT !.callstack = callstack, !.log = c.log \o r.log]
    ELSE Return(ExecutionResult("ConditionalExpression", self), c.closure, callstack, c.log)

ApplicationExpression_execute(self, cl, callstack, depth) ==
    LET closure_copy == cl
        r == IF callstack # <<>>
             THEN execute(self.function, closure_copy, Append(callstack, self.argument),
                          depth - 1)
             ELSE execute(self.function, closure_copy, <<self.argument>>, depth - 1)
        \* the caller's list is the one the function ran on only if it was non-empty
        cs == IF callstack # <<>> THEN r.callstack ELSE callstack
    IN  IF r.exc # "none" THEN Raise(r.exc, cl, cs, r.log)
        ELSE IF is_expression_type(r.result.type)
        THEN Return(ExecutionResult("ApplicationExpression", self), cl, cs, r.log)
        ELSE Return(r.result, cl, cs, r.log)

\* what a lambda did with the pending-argument stack it found: the stack on
\* entry, the argument it took, the node it stored under its identifier and
\* the stack it executed its body with
PopEvent(name, stack, popped, stored, rest) ==
    [name |-> name, stack |-> stack, popped |-> popped, stored |-> stored,
     rest |-> rest]

\* a lambda that takes the oldest pending argument instead of the newest
LambdaExpression_execute_fifo(self, cl, callstack, depth) ==
    IF callstack # <<>>
    THEN LET name == self.binding_identifier
             expr == callstack[1]
             cl1 == rebind(cl, name, expr)
             cs1 == Tail(callstack)
             r == execute(self.body_expression, cl1, cs1, depth - 1)
         IN  [r EXCEPT !.log = <<PopEvent(name, callstack, expr, cl1[name], cs1)>> \o r.log]
    ELSE execute(self.body_expression, cl, callstack, depth - 1)

LambdaExpression_execute(self, cl, callstack, depth) ==
    IF callstack # <<>>
    THEN LET name == self.binding_identifier
             expr == callstack[Len(callstack)]
             cl1 == rebind(cl, name, expr)
             cs1 == SubSeq(callstack, 1, Len(callstack) - 1)
             r == execute(self.body_expression, cl1, cs1, depth - 1)
         IN  [r EXCEPT !.log = <<PopEvent(name, callstack, expr, cl1[name], cs1)>> \o r.log]
    ELSE execute(self.body_expression, cl, callstack, depth - 1)

LetExpression_execute(self, cl, callstack, depth) ==
    LET closure_copy == cl
        cl1 == rebind_all(cl, self.binding_identifiers, self.initialiser_expressions, 1)
        r == execute(self.body_expression, closure_copy, callstack, depth - 1)
    IN  IF r.exc # "none" THEN Raise(r.exc, cl1, r.callstack, r.log)
        ELSE IF r.result.type = LiteralType
        THEN Return(r.result, cl1, r.callstack, r.log)
        ELSE Return(ExecutionResult("LetExpression", self), cl1, r.callstack, r.log)

AssignmentStatement_execute(self, cl, callstack, depth) ==
    Return(ExecutionResult(NoneType, None),
           rebind_all(cl, only_raw_ids(self.identifiers), self.expr_values, 1),
           callstack, <<>>)

\* stmt.execute(closure, callstack): dynamic dispatch on the node's class;
\* a call nested deeper than the host allows raises RecursionError
execute(self, cl, callstack, depth) ==
    IF depth <= 0 THEN Raise("RecursionError", cl, callstack, <<>>)
    ELSE CASE self.node = "AtomExpression" -> AtomExpression_execute(self, cl, callstack, depth)
           [] self.node = "UnaryExpression" -> UnaryExpression_execute(self, cl, callstack, depth)
           [] self.node = "BinaryExpression" -> BinaryExpression_execute(self, cl, callstack, depth)
           [] self.node = "ConditionalExpression" ->
                ConditionalExpression_execute(self, cl, callstack, depth)
           [] self.node = "ApplicationExpression" ->
                ApplicationExpression_execute(self, cl, callstack, depth)
           [] self.node = "LambdaExpression" -> LambdaExpression_execute(self, cl, callstack, depth)
           [] self.node = "LetExpression" -> LetExpression_execute(self, cl, callstack, depth)
           [] self.node = "AssignmentStatement" ->
                AssignmentStatement_execute(self, cl, callstack, depth)

\* [stmt.execute(closure, callstack) for stmt in self], from statement i on,
\* acc being the outcome so far (results is the list under construction)
RECURSIVE StatementList_loop(_, _, _, _)
\* a loop that hands every statement a copy of the environment
StatementList_loop_copying(self, i, acc, depth) ==
    IF i > Len(self) \/ acc.exc # "none" THEN acc
    ELSE LET r == execute(self[i], acc.closure, acc.callstack, depth - 1) IN
         StatementList_loop(self, i + 1,
            [exc |-> r.exc,
             results |-> IF r.exc = "none" THEN Append(acc.results, r.result)
                         ELSE acc.results,
             closure |-> acc.closure, callstack |-> r.callstack,
             log |-> acc.log \o r.log],
            depth)

StatementList_loop(self, i, acc, depth) ==
    IF i > Len(self) \/ acc.exc # "none" THEN acc
    ELSE LET r == execute(self[i], acc.closure, acc.callstack, depth - 1) IN
         StatementList_loop(self, i + 1,
            [exc |-> r.exc,
             results |-> IF r.exc = "none" THEN Append(acc.results, r.result)
                         ELSE acc.results,
             closure |-> r.closure, callstack |-> r.callstack,
             log |-> acc.log \o r.log],
            depth)

StatementList_execute(self, cl, callstack, depth) ==
    StatementList_loop(self, 1,
        [exc |-> "none", results |-> <<>>, closure |-> cl, callstack |-> callstack,
         log |-> <<>>],
        depth)


(***************************************************************************)
(* The nodes the model builds: identifiers x, y and the two-character xy,  *)
(* the literals 1, true and false, and every variant over them.            *)
(***************************************************************************)
x == <<"x">>

y == <<"y">>

xy == <<"x", "y">>

X == AtomExpression(x, "ID")

Y == AtomExpression(y, "ID")

XY == AtomExpression(xy, "ID")

one == AtomExpression(<<"1">>, "INTEGER")

true == AtomExpression(<<"t", "r", "u", "e">>, "BOOLEAN")

false == AtomExpression(<<"f", "a", "l", "s", "e">>, "BOOLEAN")

PLUS == Token("PLUS", <<"+">>, <<0, 0>>)

MINUS == Token("MINUS", <<"-">>, <<0, 0>>)

NOT == Token("NOT", <<"n", "o", "t">>, <<0, 0>>)

Ids == {x, y, xy}

Literals == {one, true, false}

IdAtoms == {AtomExpression(i, "ID") : i \in Ids}

Binaries ==
    {BinaryExpression(l, PLUS, r) : l \in {X, Y, one}, r \in {X, Y, one}}
    \cup {BinaryExpression(X, MINUS, one)}

Unaries ==
    {UnaryExpression(op, e) : op \in {MINUS, NOT}, e \in {one, true, false, X}}

Lambdas ==
    {LambdaExpression(i, b) :
        i \in Ids, b \in {X, Y, XY, BinaryExpression(X, PLUS, one),
                          BinaryExpression(X, PLUS, Y)}}

Lambdas2 ==
    {LambdaExpression(ij[1], LambdaExpression(ij[2], b)) :
        ij \in {<<x, y>>, <<y, x>>, <<x, x>>},
        b \in {BinaryExpression(X, PLUS, Y), X}}

Lets ==
    {LetExpression(<<i>>, <<e>>, b) :
        i \in {x, y}, e \in {one, true, X, BinaryExpression(X, PLUS, one)},
        b \in {X, Y, BinaryExpression(X, PLUS, one)}}
    \cup {LetExpression(<<x, y>>, <<one, X>>, BinaryExpression(X, PLUS, Y)),
          LetExpression(<<x>>, <<one>>, LetExpression(<<y>>, <<one>>, Y))}

Conditionals ==
    {ConditionalExpression(c, t, a) :
        c \in {true, false, X}, t \in {one, X}, a \in {Y, None}}

Applications ==
    {ApplicationExpression(f, a) :
        f \in {LambdaExpression(x, X), LambdaExpression(x, BinaryExpression(X, PLUS, one)),
               LambdaExpression(y, BinaryExpression(X, PLUS, Y)), X,
               BinaryExpression(X, PLUS, one), UnaryExpression(MINUS, X)},
        a \in {one, X, Y}}

Applications2 ==
    {ApplicationExpression(ApplicationExpression(f, a1), a2) :
        f \in Lambdas2, a1 \in {one, true, X}, a2 \in {one, true, X}}

Expressions ==
    Literals \cup IdAtoms \cup Binaries \cup Unaries \cup Lambdas \cup Lambdas2
        \cup Lets \cup Conditionals \cup Applications \cup Applications2

\* the assignments the driver runs
Assignments ==
    {AssignmentStatement(<<i>>, <<e>>) :
        i \in {x}, e \in {one, Y, BinaryExpression(X, PLUS, one),
                          BinaryExpression(Y, PLUS, one)}}
    \cup {AssignmentStatement(<<y>>, <<X>>), AssignmentStatement(<<y>>, <<one>>),
          AssignmentStatement(<<x, y>>, <<true, X>>)}

\* the pending-argument lists the driver passes to execute
Callstacks == {<<>>, <<one>>, <<Y, X>>}

\* the statements of the driver's statement lists
Statements ==
    {AssignmentStatement(<<x>>, <<one>>), AssignmentStatement(<<y>>, <<true>>),
     AssignmentStatement(<<x>>, <<BinaryExpression(X, PLUS, one)>>),
     AssignmentStatement(<<y>>, <<X>>),
     X, Y, BinaryExpression(X, PLUS, one), LetExpression(<<x>>, <<one>>, X)}

StatementLists ==
    UNION {[1..n -> Statements] : n \in 1..MaxStmts}

(***************************************************************************)
(* State machines.                                                         *)
(***************************************************************************)
NoCall ==
    [op |-> "init", stmts |-> <<>>, closure_before |-> EmptyClosure,
     callstack_before |-> <<>>, exc |-> "none", results |-> <<>>,
     callstack |-> <<>>, log |-> <<>>]

NoCache == [variables |-> {}, free_variables |-> {}, bound_variables |-> {},
            cached |-> {}]

NoScanner ==
    [source |-> <<>>, ignore_skippables |-> TRUE, source_len |-> 0,
     source_start |-> 0, source_pos |-> 0, column_pos |-> 0, line_pos |-> 0]

AstIdle == ast_node = None /\ ast_cache = NoCache

EvalIdle == closure = EmptyClosure /\ nassign = 0 /\ last = NoCall

NoScanCall ==
    [op |-> "init", source_pos |-> 0, pos |-> <<0, 0>>, exc |-> "none", ret |-> None]

ScanIdle ==
    scanner = NoScanner /\ toks = <<>> /\ scan_status = "returned"
        /\ scan_call = NoScanCall

\* --- scope queries of a node: each cached_property is computed once ---
InitAst ==
    /\ ast_node \in Expressions
    /\ ast_cache = NoCache
    /\ EvalIdle
    /\ ScanIdle

GetVariables ==
    /\ ast_node # None
    /\ "variables" \notin ast_cache.cached
    /\ ast_cache' = [ast_cache EXCEPT !.variables = variables(ast_node),
                                      !.cached = @ \cup {"variables"}]
    /\ UNCHANGED <<ast_node, eval_vars, scan_vars>>

GetFreeVariables ==
    /\ ast_node # None
    /\ "free_variables" \notin ast_cache.cached
    /\ ast_cache' = [ast_cache EXCEPT !.free_variables = free_variables(ast_node),
                                      !.cached = @ \cup {"free_variables"}]
    /\ UNCHANGED <<ast_node, eval_vars, scan_vars>>

GetBoundVariables ==
    /\ ast_node # None
    /\ "bound_variables" \notin ast_cache.cached
    /\ ast_cache' = [ast_cache EXCEPT !.bound_variables = bound_variables(ast_node),
                                      !.cached = @ \cup {"bound_variables"}]
    /\ UNCHANGED <<ast_node, eval_vars, scan_vars>>

NextAst == GetVariables \/ GetFreeVariables \/ GetBoundVariables

SpecAst == InitAst /\ [][NextAst]_vars

\* --- the driver: it runs assignments against its environment, then one
\* --- evaluation (an expression or a statement list)
InitEval ==
    /\ AstIdle
    /\ EvalIdle
    /\ ScanIdle

DriverMayCall == last.op \in {"init", "AssignmentStatement"}

Call(op, stmts, callstack, out, results) ==
    [op |-> op, stmts |-> stmts, closure_before |-> closure,
     callstack_before |-> callstack, exc |-> out.exc, results |-> results,
     callstack |-> out.callstack, log |-> out.log]

ExecuteAssignment ==
    /\ DriverMayCall
    /\ nassign < MaxAssign
    /\ \E stmt \in Assignments :
          LET out == execute(stmt, closure, <<>>, MaxDepth) IN
          /\ closure' = out.closure
          /\ last' = Call("AssignmentStatement", <<stmt>>, <<>>, out, <<out.result>>)
    /\ nassign' = nassign + 1
    /\ UNCHANGED <<ast_vars, scan_vars>>

ExecuteExpression ==
    /\ DriverMayCall
    /\ \E expr \in Expressions, callstack \in Callstacks :
          LET out == execute(expr, closure, callstack, MaxDepth) IN
          /\ closure' = out.closure
          /\ last' = Call("execute", <<expr>>, callstack, out,
                          IF out.exc = "none" THEN <<out.result>> ELSE <<>>)
    /\ UNCHANGED <<ast_vars, nassign, scan_vars>>

ExecuteStatementList ==
    /\ DriverMayCall
    /\ \E stmts \in StatementLists :
          LET out == StatementList_execute(stmts, closure, <<>>, MaxDepth) IN
          /\ closure' = out.closure
          /\ last' = Call("StatementList", stmts, <<>>, out, out.results)
    /\ UNCHANGED <<ast_vars, nassign, scan_vars>>

NextEval == ExecuteAssignment \/ ExecuteExpression \/ ExecuteStatementList

SpecEval == InitEval /\ [][NextEval]_vars


(***************************************************************************)
(* The scanner (scanner.py).  A QuarkScanner object is the record sc of    *)
(* its fields; source positions count from 0 as in the code, and           *)
(* source[i] of the code is sc.source[i + 1] here.                         *)
(***************************************************************************)
Digits == {"0", "1", "2", "3", "4", "5", "6", "7", "8", "9"}

Letters == {"i", "m", "a", "b", "c", "f", "n", "x", "y"}

\* the characters of the scanned texts; all of them are ASCII
Alphabet == {"0", "7", ".", "i", "m", " ", "\"", "="}

\* the lexeme tables of quark.core.token_
single_char_tokens == [k \in {<<"=">>} |-> "EQUAL"]

double_char_tokens == [k \in {<<"=", "=">>} |-> "DOUBLE_EQUAL"]

triple_char_tokens == [k \in {<<"=", "=", "=">>} |-> "TRIPLE_EQUAL"]

keyword_tokens ==
    [k \in {<<"i", "n">>, <<"i", "f">>} |-> IF k = <<"i", "n">> THEN "IN" ELSE "IF"]

\* the value of a str-valued property that is None
NoneStr == <<"<None>">>

Min(a, b) == IF a <= b THEN a ELSE b

\* Python's source[a:b]
slice(source, a, b) == SubSeq(source, a + 1, Min(b, Len(source)))

QuarkScanner(source, ignore_skippables) ==
    [source |-> source, ignore_skippables |-> ignore_skippables,
     source_len |-> Len(source), source_start |-> 0, source_pos |-> 0,
     column_pos |-> 0, line_pos |-> 0]

_current_pos(sc) == <<sc.column_pos, sc.line_pos>>

_reached_end_of_source(sc, off) == sc.source_pos = sc.source_len - off

_current_char(sc) ==
    IF ~_reached_end_of_source(sc, 0) THEN sc.source[sc.source_pos + 1] ELSE "<None>"

_current_nchars(sc, n) ==
    IF ~_reached_end_of_source(sc, n - 1)
    THEN slice(sc.source, sc.source_pos, sc.source_pos + n)
    ELSE NoneStr

_consumed_chars(sc) == slice(sc.source, sc.source_start, sc.source_pos)

_match(sc, str) ==
    IF _reached_end_of_source(sc, Len(str) - 1) THEN FALSE
    ELSE slice(sc.source, sc.source_pos, sc.source_pos + Len(str)) = str

_consume_char(sc) ==
    IF _reached_end_of_source(sc, 0) THEN sc
    ELSE LET nl == IF _current_char(sc) = "\n"
                   THEN [sc EXCEPT !.column_pos = 0, !.line_pos = @ + 1]
                   ELSE sc
         IN  [nl EXCEPT !.column_pos = @ + 1, !.source_pos = @ + 1]

RECURSIVE _consume_nchars(_, _)
_consume_nchars(sc, n) ==
    IF n = 0 THEN sc ELSE _consume_nchars(_consume_char(sc), n - 1)

_discard_consumed_chars(sc) == [sc EXCEPT !.source_start = sc.source_pos]

\* ord(c) >= 128
IsNonAscii(c) == c \notin Alphabet \cup Digits \cup Letters \cup {"_", "\n", "\t"}

_is_id_start(sc) ==
    IF _reached_end_of_source(sc, 0) THEN FALSE
    ELSE _current_char(sc) \in Letters \/ _current_char(sc) = "_"
            \/ IsNonAscii(_current_char(sc))

_is_id_char(sc) ==
    IF _reached_end_of_source(sc, 0) THEN FALSE
    ELSE _current_char(sc) \in Letters \/ _current_char(sc) \in Digits
            \/ _current_char(sc) = "_" \/ IsNonAscii(_current_char(sc))

_is_num_char(sc) ==
    IF _reached_end_of_source(sc, 0) THEN FALSE ELSE _current_char(sc) \in Digits

_is_str_start(sc) ==
    IF _reached_end_of_source(sc, 0) THEN FALSE ELSE _current_char(sc) = "\""

_is_str_char(sc) ==
    IF _reached_end_of_source(sc, 0) THEN FALSE
    ELSE _current_char(sc) # "\"" /\ ~IsNonAscii(_current_char(sc))

_is_skippable(sc) ==
    IF _reached_end_of_source(sc, 0) THEN FALSE ELSE _current_char(sc) \in {" ", "\t"}

\* the outcome of (a part of) next_token: the scanner after it, the exception
\* it raised, and the value it computed
Scanned(sc, v) == [exc |-> "none", sc |-> sc, val |-> v]

ScanRaise(sc) == [exc |-> "QuarkScannerError", sc |-> sc, val |-> None]

\* while self._is_skippable(): self._consume_char()
RECURSIVE skippable_loop(_)
skippable_loop(sc) ==
    IF _is_skippable(sc) THEN skippable_loop(_consume_char(sc)) ELSE sc

\* while self._is_num_char(): self._consume_char()
RECURSIVE num_char_loop(_)
num_char_loop(sc) ==
    IF _is_num_char(sc) THEN num_char_loop(_consume_char(sc)) ELSE sc

\* while self._is_id_char(): self._consume_char()
RECURSIVE id_char_loop(_)
id_char_loop(sc) ==
    IF _is_id_char(sc) THEN id_char_loop(_consume_char(sc)) ELSE sc

RECURSIVE leading_digits_loop(_, _)
\* the loop without its test for zeros
leading_digits_loop_unchecked(sc, must_be_real_or_zero) ==
    IF _is_num_char(sc)
    THEN leading_digits_loop(_consume_char(sc), must_be_real_or_zero)
    ELSE Scanned(sc, None)

\* the digits of the integer part: a literal that began with 0 goes on with
\* zeros only
leading_digits_loop(sc, must_be_real_or_zero) ==
    IF _is_num_char(sc)
    THEN IF must_be_real_or_zero /\ ~_match(sc, <<"0">>)
         THEN ScanRaise(sc)
         ELSE leading_digits_loop(_consume_char(sc), must_be_real_or_zero)
    ELSE Scanned(sc, None)

\* the branch of a decimal digit
number_branch(sc) ==
    LET must_be_real_or_zero == _match(sc, <<"0">>)
        digits == leading_digits_loop(_consume_char(sc), must_be_real_or_zero)
    IN  IF digits.exc # "none" THEN digits
        ELSE LET real == _match(digits.sc, <<".">>)
                 sc1 == IF real THEN num_char_loop(_consume_char(digits.sc))
                        ELSE digits.sc
             IN  IF _match(sc1, <<"i", "m">>)
                 THEN Scanned(_consume_nchars(sc1, 2), "COMPLEX")
                 ELSE Scanned(sc1, IF real THEN "REAL" ELSE "INTEGER")

\* the branch of a period
period_branch(sc) ==
    LET sc1 == _consume_char(sc) IN
    IF _is_num_char(sc1)
    THEN LET sc2 == num_char_loop(_consume_char(sc1)) IN
         IF _match(sc2, <<"i", "m">>)
         THEN Scanned(_consume_nchars(sc2, 2), "COMPLEX")
         ELSE Scanned(sc2, "REAL")
    ELSE Scanned(sc1, "PERIOD")

\* the branch of an identifier or keyword
id_branch(sc) ==
    LET sc1 == id_char_loop(_consume_char(sc)) IN
    IF _consumed_chars(sc1) \in DOMAIN keyword_tokens
    THEN Scanned(sc1, keyword_tokens[_consumed_chars(sc1)])
    ELSE Scanned(sc1, "ID")

\* the lexeme branches of next_token and the token they build
lexeme(sc, pos) ==
    LET branch ==
          IF _is_num_char(sc) THEN number_branch(sc)
          ELSE IF _match(sc, <<".">>) THEN period_branch(sc)
          ELSE IF _current_nchars(sc, 3) \in DOMAIN triple_char_tokens
          THEN LET sc1 == _consume_nchars(sc, 3) IN
               Scanned(sc1, triple_char_tokens[_consumed_chars(sc1)])
          ELSE IF _current_nchars(sc, 2) \in DOMAIN double_char_tokens
          THEN LET sc1 == _consume_nchars(sc, 2) IN
               Scanned(sc1, double_char_tokens[_consumed_chars(sc1)])
          ELSE IF <<_current_char(sc)>> \in DOMAIN single_char_tokens
          THEN LET sc1 == _consume_char(sc) IN
               Scanned(sc1, single_char_tokens[_consumed_chars(sc1)])
          ELSE IF _is_id_start(sc) THEN id_branch(sc)
          ELSE ScanRaise(sc)
    IN  IF branch.exc # "none" THEN branch
        ELSE Scanned(_discard_consumed_chars(branch.sc),
                     Token(branch.val, _consumed_chars(branch.sc), pos))

next_token(sc) ==
    LET pos == _current_pos(sc) IN
    IF _is_skippable(sc)
    THEN LET sc1 == skippable_loop(_consume_char(sc)) IN
         IF sc1.ignore_skippables
         THEN LET sc2 == _discard_consumed_chars(sc1) IN
              IF _reached_end_of_source(sc2, 0) THEN Scanned(sc2, None)
              ELSE lexeme(sc2, pos)
         ELSE Scanned(_discard_consumed_chars(sc1),
                      Token("SKIP", _consumed_chars(sc1), pos))
    ELSE lexeme(sc, pos)

\* --- tokens(): next_token is called until the end of the source is reached
Sources == UNION {[1..n -> Alphabet] : n \in 0..MaxLen}

InitScan ==
    /\ AstIdle
    /\ EvalIdle
    /\ \E source \in Sources, ignore_skippables \in BOOLEAN :
            scanner = QuarkScanner(source, ignore_skippables)
    /\ toks = <<>>
    /\ scan_status = "scanning"
    /\ scan_call = NoScanCall

TokensNext ==
    /\ scan_status = "scanning"
    /\ ~_reached_end_of_source(scanner, 0)
    /\ LET out == next_token(scanner) IN
       /\ scanner' = out.sc
       /\ toks' = IF out.exc = "none" THEN Append(toks, out.val) ELSE toks
       /\ scan_status' = IF out.exc = "none" THEN "scanning" ELSE "raised"
       /\ scan_call' = [op |-> "next_token", source_pos |-> scanner.source_pos,
                        pos |-> _current_pos(scanner), exc |-> out.exc,
                        ret |-> out.val]
    /\ UNCHANGED <<ast_vars, eval_vars>>

TokensReturn ==
    /\ scan_status = "scanning"
    /\ _reached_end_of_source(scanner, 0)
    /\ scan_status' = "returned"
    /\ UNCHANGED <<ast_vars, eval_vars, scanner, toks, scan_call>>

NextScan == TokensNext \/ TokensReturn

SpecScan == InitScan /\ [][NextScan]_vars

(***************************************************************************)
(* Properties.                                                             *)
(***************************************************************************)
Executed(node) == last.op = "execute" /\ last.stmts = <<node>>

Returned(result) == last.exc = "none" /\ last.results = <<result>>

Literal(v) == ExecutionResult(LiteralType, v)

\* C1: the binding identifier of a LambdaExpression, of one character or of
\* several, is never a member of the lambda's free_variables, and every other
\* identifier free in the body is free in the lambda.
C1_LambdaBinderNotFree ==
    (ast_node.node = "LambdaExpression" /\ "free_variables" \in ast_cache.cached)
    => /\ ast_node.binding_identifier \notin ast_cache.free_variables
       /\ \A v \in Ids :
            (v # ast_node.binding_identifier
                /\ v \in free_variables(ast_node.body_expression))
            => v \in ast_cache.free_variables

\* C2: for every expression node, variables is the union of free_variables
\* and bound_variables.
C2_VariablesIsFreeUnionBound ==
    ast_cache.cached = {"variables", "free_variables", "bound_variables"}
    => ast_cache.variables = ast_cache.free_variables \cup ast_cache.bound_variables

\* C3: executing `let i = <literal L> in i` returns, in any environment, a
\* literal result whose value is L (the body sees the let's own bindings).
C3_LetBindsLiteral ==
    \A i \in {x, y} :
        /\ (Executed(LetExpression(<<i>>, <<one>>, AtomExpression(i, "ID")))
                /\ last.callstack_before = <<>>)
           => Returned(Literal(IntegerOf(1)))
        /\ (Executed(LetExpression(<<i>>, <<true>>, AtomExpression(i, "ID")))
                /\ last.callstack_before = <<>>)
           => Returned(Literal(BooleanObject(TRUE)))

\* C4: executing an expression of any variant, with or without pending
\* arguments, leaves the caller's environment as it was: same keys, same nodes.
C4_ExpressionsLeaveEnvironment ==
    last.op = "execute" => closure = last.closure_before

\* C5: x + 1 executed where x is unbound is returned stuck, tagged
\* BinaryExpression and carrying the node itself, the environment unchanged;
\* executed where x is bound to the literal 1 it returns the literal integer 2.
C5_BinaryStuckThenTwo ==
    Executed(BinaryExpression(X, PLUS, one))
    => /\ x \notin DOMAIN last.closure_before
            => /\ Returned(ExecutionResult("BinaryExpression",
                                BinaryExpression(X, PLUS, one)))
               /\ closure = last.closure_before
       /\ (x \in DOMAIN last.closure_before /\ last.closure_before[x] = one)
            => Returned(Literal(IntegerOf(2)))

C5_Witness ==
    /\ Executed(BinaryExpression(X, PLUS, one))
    /\ x \in DOMAIN last.closure_before
    /\ last.closure_before[x] = one
    /\ Returned(Literal(IntegerOf(2)))

\* the environment statement i of a list runs in, and its outcome there
RECURSIVE EnvironmentBefore(_, _, _)
OutcomeOf(stmts, before, i) ==
    execute(stmts[i], EnvironmentBefore(stmts, before, i), <<>>, MaxDepth - 1)

EnvironmentBefore(stmts, before, i) ==
    IF i = 1 THEN before ELSE OutcomeOf(stmts, before, i - 1).closure

\* C6: a StatementList that returns gives one result per statement, in
\* order, statement i having run in the environment left by statements
\* 0..i-1; [x := 1, x] run on the empty environment gives a no-value result
\* followed by the literal integer 1.
C6_StatementListInOrder ==
    (last.op = "StatementList" /\ last.exc = "none")
    => /\ Len(last.results) = Len(last.stmts)
       /\ \A i \in 1..Len(last.stmts) :
            /\ last.results[i] = OutcomeOf(last.stmts, last.closure_before, i).result
            /\ last.results[i].type = NoneType
                    <=> last.stmts[i].node = "AssignmentStatement"
       /\ (last.stmts = <<AssignmentStatement(<<x>>, <<one>>), X>>
                /\ last.closure_before = EmptyClosure)
            => last.results = <<ExecutionResult(NoneType, None), Literal(IntegerOf(1))>>

C6_Witness ==
    /\ last.op = "StatementList"
    /\ last.stmts = <<AssignmentStatement(<<x>>, <<one>>), X>>
    /\ last.closure_before = EmptyClosure
    /\ last.results = <<ExecutionResult(NoneType, None), Literal(IntegerOf(1))>>

SelfReference(name, expr, previous) ==
    ApplicationExpression(LambdaExpression(name, expr), previous)

\* C7: assigning x := x + 1 where x is bound replaces the entry of x by
\* Application(Lambda(x, x + 1), <previous value of x>) without an error, and
\* with the literal 1 as the previous value a later evaluation of x returns the
\* literal integer 2; an assignment whose expression does not mention the
\* identifier, or whose identifier was unbound, stores the expression itself.
C7_SelfReferenceRebinding ==
    /\ (last.op = "AssignmentStatement" /\ Len(last.stmts[1].identifiers) = 1)
       => LET name == last.stmts[1].identifiers[1]
              expr == last.stmts[1].expr_values[1]
          IN  /\ last.exc = "none"
              /\ DOMAIN closure = DOMAIN last.closure_before \cup {name}
              /\ \A k \in DOMAIN closure \ {name} : closure[k] = last.closure_before[k]
              /\ closure[name] =
                    IF name \in DOMAIN last.closure_before
                            /\ name \in variables(expr)
                    THEN SelfReference(name, expr, last.closure_before[name])
                    ELSE expr
    /\ (Executed(X) /\ x \in DOMAIN last.closure_before
            /\ last.closure_before[x]
                    = SelfReference(x, BinaryExpression(X, PLUS, one), one))
       => Returned(Literal(IntegerOf(2)))

C7_Witness ==
    /\ Executed(X)
    /\ x \in DOMAIN last.closure_before
    /\ last.closure_before[x] = SelfReference(x, BinaryExpression(X, PLUS, one), one)
    /\ Returned(Literal(IntegerOf(2)))

\* C8: a closed UnaryExpression applies its operator to the operand's value:
\* -1 for MINUS on the literal 1, and the boolean negation for NOT on true and
\* on false.
C8_UnaryAppliesToValue ==
    /\ Executed(UnaryExpression(MINUS, one)) => Returned(Literal(IntegerOf(0 - 1)))
    /\ Executed(UnaryExpression(NOT, true))
            => (last.exc = "none" /\ last.results[1].type = LiteralType
                    /\ last.results[1].val.v = FALSE)
    /\ Executed(UnaryExpression(NOT, false))
            => (last.exc = "none" /\ last.results[1].type = LiteralType
                    /\ last.results[1].val.v = TRUE)

\* the node the binding rule stores for name when it is given expr in env
Stored(env, name, expr) ==
    IF name \in DOMAIN env /\ name \in variables(expr)
    THEN SelfReference(name, expr, env[name])
    ELSE expr

IsCurried(node) ==
    /\ node.node = "ApplicationExpression"
    /\ node.function.node = "ApplicationExpression"
    /\ node.function.function.node = "LambdaExpression"
    /\ node.function.function.body_expression.node = "LambdaExpression"

\* C9: executing Application(Application(Lambda(a, Lambda(b, body)), A), B)
\* with no pending arguments pushes B, then A; the outer lambda pops A and
\* binds a from it, the inner lambda pops B and binds b from it, each lambda
\* pops exactly one argument, and body runs with an empty stack.  (Binding is
\* by the binding rule: the argument itself, or its self-reference wrapping
\* when the identifier is already bound and the argument mentions it.)
C9_CurriedArgumentsInOrder ==
    (last.op = "execute" /\ last.callstack_before = <<>> /\ IsCurried(last.stmts[1]))
    => LET node == last.stmts[1]
           outer == node.function.function
           inner == outer.body_expression
           A == node.function.argument
           B == node.argument
           env1 == setitem(last.closure_before, outer.binding_identifier,
                           Stored(last.closure_before, outer.binding_identifier, A))
       IN  /\ Len(last.log) >= 2
           /\ last.log[1] = [name |-> outer.binding_identifier, stack |-> <<B, A>>,
                             popped |-> A,
                             stored |-> Stored(last.closure_before,
                                               outer.binding_identifier, A),
                             rest |-> <<B>>]
           /\ last.log[2] = [name |-> inner.binding_identifier, stack |-> <<B>>,
                             popped |-> B,
                             stored |-> Stored(env1, inner.binding_identifier, B),
                             rest |-> <<>>]
           /\ last.callstack = <<>>

C9_Witness ==
    /\ Executed(ApplicationExpression(ApplicationExpression(
            LambdaExpression(x, LambdaExpression(y, X)), one), true))
    /\ last.callstack_before = <<>>
    /\ Len(last.log) = 2
    /\ last.log[1].popped = one /\ last.log[1].stored = one
    /\ last.log[2].popped = true /\ last.log[2].rest = <<>>
    /\ Returned(Literal(IntegerOf(1)))

\* the character of the scanned text at position p (counted from 0)
CharAt(p) ==
    IF p < Len(scanner.source) THEN scanner.source[p + 1] ELSE "<None>"

RECURSIVE AfterBlanks(_)
AfterBlanks(p) == IF CharAt(p) \in {" ", "\t"} THEN AfterBlanks(p + 1) ELSE p

RECURSIVE AfterZeros(_)
AfterZeros(p) == IF CharAt(p) = "0" THEN AfterZeros(p + 1) ELSE p

\* where the lexeme of the last next_token call begins
LexemeStart ==
    IF scanner.ignore_skippables THEN AfterBlanks(scan_call.source_pos)
    ELSE scan_call.source_pos

ScansToOne(source, type_) ==
    (scanner.source = source /\ scan_status # "scanning")
    => (scan_status = "returned" /\ toks = <<Token(type_, source, <<0, 0>>)>>)

\* C10 (as claimed): a numeric literal that starts with 0 directly followed
\* by any decimal digit, a further 0 included, fails with a scanner error and
\* gives no token; "0", "0.7" and "0im" scan without error.
C10_AnyDigitAfterZeroFails ==
    /\ (scan_call.op = "next_token" /\ CharAt(LexemeStart) = "0"
            /\ CharAt(LexemeStart + 1) \in Digits)
       => (scan_call.exc = "QuarkScannerError" /\ scan_call.ret = None
            /\ scan_status = "raised")
    /\ ScansToOne(<<"0">>, "INTEGER")
    /\ ScansToOne(<<"0", ".", "7">>, "REAL")
    /\ ScansToOne(<<"0", "i", "m">>, "COMPLEX")

\* C10 (amended): a numeric literal that starts with 0 fails with a scanner
\* error, giving no token, exactly when its leading run of zeros is directly
\* followed by a nonzero digit ("007", "07"); a literal whose integer part is
\* zeros only ("00", "00.7") scans, and so do "0", "0.7" and "0im".
C10_NonzeroDigitAfterZerosFails ==
    /\ (scan_call.op = "next_token" /\ CharAt(LexemeStart) = "0")
       => IF CharAt(AfterZeros(LexemeStart)) \in Digits
          THEN /\ scan_call.exc = "QuarkScannerError"
               /\ scan_call.ret = None
               /\ scan_status = "raised"
          ELSE /\ scan_call.exc = "none"
               /\ scan_status # "raised"
               /\ scan_call.ret.type \in {"INTEGER", "REAL", "COMPLEX"}
               /\ toks[Len(toks)] = scan_call.ret
               /\ SubSeq(scan_call.ret.raw, 1, AfterZeros(LexemeStart) - LexemeStart)
                    = SubSeq(scanner.source, LexemeStart + 1, AfterZeros(LexemeStart))
    /\ ScansToOne(<<"0">>, "INTEGER")
    /\ ScansToOne(<<"0", ".", "7">>, "REAL")
    /\ ScansToOne(<<"0", "i", "m">>, "COMPLEX")
    /\ ScansToOne(<<"0", "0">>, "INTEGER")
    /\ ScansToOne(<<"0", "0", ".", "7">>, "REAL")

C10_Witness ==
    /\ scanner.source = <<"0", "0", "7">>
    /\ scan_call.op = "next_token"
    /\ scan_call.exc = "QuarkScannerError"
    /\ scan_status = "raised"
    /\ toks = <<>>

\* the (column, line) the scanner counts for the character at position p: its
\* position after consuming the p characters before it
PositionOf(p) ==
    _current_pos(_consume_nchars(
        QuarkScanner(scanner.source, scanner.ignore_skippables), p))

IsToken(t) == DOMAIN t = DOMAIN Token("ID", <<"i">>, <<0, 0>>)

\* C11: every token next_token emits carries the (column, line) position of
\* its own first character, in both whitespace modes; when whitespace is
\* discarded, a token after a run of blanks carries the position of its first
\* non-blank character, not the position where the run began.
C11_TokenCarriesOwnPosition ==
    (scan_call.op = "next_token" /\ scan_call.exc = "none" /\ IsToken(scan_call.ret))
    => scan_call.ret.pos = PositionOf(LexemeStart)

\* C12: when a text scans without error, every element of the sequence that
\* tokens() returns is a Token record and none is the end-of-input marker
\* None, also when whitespace is discarded and the text ends with blanks.
C12_TokensReturnsOnlyTokens ==
    scan_status = "returned"
    => \A i \in 1..Len(toks) : toks[i] # None /\ IsToken(toks[i])

\* the position of the first character at or after p that is not a string
\* character (a quote, a non-ASCII character, or the end of the text)
RECURSIVE AfterStrChars(_)
AfterStrChars(p) ==
    IF p < Len(scanner.source) /\ CharAt(p) # "\"" /\ ~IsNonAscii(CharAt(p))
    THEN AfterStrChars(p + 1)
    ELSE p

\* C13: when the current character is a double quote and a closing quote
\* follows the string characters after it, next_token consumes the opening
\* quote, those characters and the closing quote and emits them as one token
\* of kind STRING; the text "im" in quotes scans to exactly one STRING token.
C13_QuoteStartsString ==
    /\ (scan_call.op = "next_token" /\ CharAt(LexemeStart) = "\""
            /\ CharAt(AfterStrChars(LexemeStart + 1)) = "\"")
       => (/\ scan_call.exc = "none"
           /\ IsToken(scan_call.ret)
           /\ scan_call.ret.type = "STRING"
           /\ scan_call.ret.raw = slice(scanner.source, LexemeStart,
                                        AfterStrChars(LexemeStart + 1) + 1))
    /\ (scanner.source = <<"\"", "i", "m", "\"">> /\ scan_status # "scanning")
       => (/\ scan_status = "returned"
           /\ Len(toks) = 1
           /\ IsToken(toks[1])
           /\ toks[1].type = "STRING"
           /\ toks[1].raw = scanner.source)

\* the outcome of the function expression of the application the driver last
\* executed: run against the environment before the call, with the argument
\* pushed on the pending arguments
FunctionOutcome ==
    LET self == last.stmts[1] IN
    execute(self.function, last.closure_before,
            IF last.callstack_before # <<>>
            THEN Append(last.callstack_before, self.argument)
            ELSE <<self.argument>>,
            MaxDepth)

\* C14: when the function expression of an ApplicationExpression reduces to
\* an unresolved (non-literal) result, whatever variant is stuck inside it,
\* the application returns a stuck result tagged ApplicationExpression whose
\* value is the application node itself; and every stuck result is tagged
\* with the variant of the node it carries.
C14_StuckFunctionGivesStuckApplication ==
    /\ (/\ last.op = "execute"
        /\ last.stmts[1].node = "ApplicationExpression"
        /\ FunctionOutcome.exc = "none"
        /\ FunctionOutcome.result.type # LiteralType)
       => Returned(ExecutionResult("ApplicationExpression", last.stmts[1]))
    /\ (/\ last.op = "execute"
        /\ last.exc = "none"
        /\ last.results[1].type \notin {LiteralType, NoneType})
       => last.results[1].type = last.results[1].val.node

\* the operand expressions of a binary or unary node
OperandsOf(node) ==
    IF node.node = "BinaryExpression" THEN {node.lhs_expr, node.rhs_expr}
    ELSE IF node.node = "UnaryExpression" THEN {node.expr}
    ELSE {}

\* expr does not reduce to a literal in env: its execution returns a stuck
\* result
StuckIn(expr, env) ==
    LET out == execute(expr, env, <<>>, MaxDepth) IN
    out.exc = "none" /\ out.result.type # LiteralType

\* C15: the value of a literal-tagged ExecutionResult is a fully reduced
\* runtime value: it is not an AST node and it is not computed from one, so a
\* binary or unary node with an operand that is stuck in the environment
\* (all its free variables being keys, but x bound to the atom y and y
\* unbound) does not return a literal-tagged result.
C15_LiteralIsFullyReduced ==
    (last.op = "execute" /\ last.exc = "none"
        /\ last.results[1].type = LiteralType)
    => /\ "node" \notin DOMAIN last.results[1].val
       /\ ~IsExecutionResult(last.results[1].val)
       /\ \A e \in OperandsOf(last.stmts[1]) : ~StuckIn(e, last.closure_before)

\* C16: after any sequence of assignments of literals, identifiers and
\* binary expressions made from the empty environment, evaluating the atom
\* of an identifier terminates with a literal or a stuck result; identifier
\* re-resolution never recurses without bound.
C16_IdentifierResolutionTerminates ==
    (last.op = "execute" /\ last.stmts[1] \in IdAtoms
        /\ last.callstack_before = <<>>)
    => /\ last.exc # "RecursionError"
       /\ last.exc = "none"
            => (last.results[1].type = LiteralType
                    \/ is_expression_type(last.results[1].type))

=============================================================================
